---- MODULE Spec2Model ----
(***************************************************************************)
(* Model of post_ood_logs_to_access_mms.py: the pipeline runner            *)
(* (__run_pipeline), the value resolver (__find_conf_value) and the        *)
(* module-level driver that loads conf.ini, resolves three keys and        *)
(* rewrites conf.ini.                                                      *)
(*                                                                         *)
(* Byte strings and text are sequences of code points; a Python value is a *)
(* tagged record so that b'' , '' and None stay distinct, as they are in   *)
(* Python.  Option values are assumed free of '%' (configparser            *)
(* interpolation is outside the model).                                    *)
(***************************************************************************)
EXTENDS Integers, Sequences, FiniteSets, TLC

VARIABLES
    conf,           \* the in-memory ConfigParser: section -> (key -> value)
    pc,             \* position inside a call of __find_conf_value
    key,            \* argument `key` of the current call
    pipeline_args,  \* argument `pipeline_args` of the current call
    default,        \* argument `default` of the current call
    host_stdin,     \* what the host process's own standard input holds
    procs,          \* processes launched so far by __run_pipeline
    results,        \* the dict `results` of __run_pipeline
    value,          \* value returned by __find_conf_value
    exc,            \* name of the uncaught exception, "none" if none
    conf0,          \* the store as it was on entry to the current call
    file,           \* content of conf.ini on disk
    file0,          \* content of conf.ini before the run
    dpc,            \* position of the module-level driver
    history         \* the calls of __find_conf_value that have returned

vars == <<conf, pc, key, pipeline_args, default, host_stdin, procs, results,
          value, exc, conf0, file, file0, dpc, history>>

----------------------------------------------------------------------------
(* Bounds *)

\* Longest pipeline explored
MaxPipe == 2

\* Calls of __find_conf_value for one key explored when the call is retried
MaxCalls == 2

----------------------------------------------------------------------------
(* Python values *)

DEBUG == TRUE

None == [t |-> "None", v |-> <<>>]

Str(s) == [t |-> "str", v |-> s]

Bytes(b) == [t |-> "bytes", v |-> b]

\* bool(x) for None, str and bytes
Truthy(x) == x.t # "None" /\ Len(x.v) > 0

\* Code points: 10 = '\n', 32 = ' ', 112 = 'p', 113 = 'q', 101 = 'e',
\* 104 = 'h', 99 = 'c', 100 = 'd', 255 = a byte that is not valid UTF-8.
Whitespace == {9, 10, 11, 12, 13, 32}

RECURSIVE rstrip(_)
rstrip(s) ==
    IF s = <<>> THEN <<>>
    ELSE IF s[Len(s)] \in Whitespace THEN rstrip(SubSeq(s, 1, Len(s) - 1))
    ELSE s

\* bytes.decode('utf-8'): defined on the bytes below 128, an error otherwise
Decodable(b) == \A i \in 1..Len(b) : b[i] < 128

decode(b) == [i \in 1..Len(b) |-> b[i]]

----------------------------------------------------------------------------
(* External commands.  A command is a black box: what it writes to its      *)
(* standard output and standard error and its exit status are a function    *)
(* of what it reads on its standard input.                                  *)
(*   emit   : ignores its input (httpd -t -D DUMP_INCLUDES)                 *)
(*   filter : copies its input, exit 1 when nothing was selected (grep)     *)
(*   copy   : copies its input, always exit 0 (awk '{print $2}', cut)       *)

Cmd(k, o, e, c) == [kind |-> k, out |-> o, err |-> e, code |-> c]

Commands ==
    { Cmd("emit", <<112, 10>>, <<>>, 0),
      Cmd("emit", <<113, 32, 10>>, <<101, 10>>, 1),
      Cmd("emit", <<>>, <<>>, 0),
      Cmd("emit", <<255>>, <<>>, 0),
      Cmd("filter", <<>>, <<101, 10>>, 0),
      Cmd("copy", <<>>, <<>>, 0) }

\* What one process does with input `input`
Exec(cmd, input) ==
    CASE cmd.kind = "emit" ->
            [out |-> cmd.out, err |-> cmd.err, code |-> cmd.code]
      [] cmd.kind = "filter" ->
            [out |-> input,
             err |-> IF input = <<>> THEN cmd.err ELSE <<>>,
             code |-> IF input = <<>> THEN 1 ELSE 0]
      [] OTHER ->
            [out |-> input, err |-> <<>>, code |-> 0]

\* The pipelines handed to __run_pipeline: one or more commands
Pipelines == UNION { [1..n -> Commands] : n \in 1..MaxPipe }

HostInputs == { <<>>, <<104, 10>> }

----------------------------------------------------------------------------
(* configparser.ConfigParser(allow_no_value=True)                           *)

Keys == {"apache_conf_path", "ood_portal_conf_path", "access_log_filename"}

Defaults == { <<100>>, <<100, 50>> }

Cached == <<99>>

\* Section contents the driver never touches
LogsSection == [dir |-> Str(<<108>>)]

RunsSection == [last |-> Str(<<114>>)]

HasSection(c, s) == s \in DOMAIN c

HasOption(c, s, k) == HasSection(c, s) /\ k \in DOMAIN c[s]

\* conf.get(section, option): [exc, value]
ConfGet(c, s, k) ==
    IF ~HasSection(c, s) THEN [exc |-> "NoSectionError", value |-> None]
    ELSE IF k \notin DOMAIN c[s] THEN [exc |-> "NoOptionError", value |-> None]
    ELSE [exc |-> "none", value |-> c[s][k]]

\* ConfSet as dict.setdefault would do it: an option already there is kept
ConfSet_keep(c, s, k, v) ==
    IF v.t = "bytes" /\ Len(v.v) > 0 THEN [exc |-> "TypeError", conf |-> c]
    ELSE IF ~HasSection(c, s) THEN [exc |-> "NoSectionError", conf |-> c]
    ELSE [exc |-> "none",
          conf |-> [c EXCEPT ![s] =
                      [o \in DOMAIN c[s] \cup {k} |->
                          IF o \in DOMAIN c[s] THEN c[s][o] ELSE v]]]

\* ConfSet that rebuilds the section from the one option it sets
ConfSet_clobber(c, s, k, v) ==
    IF v.t = "bytes" /\ Len(v.v) > 0 THEN [exc |-> "TypeError", conf |-> c]
    ELSE IF ~HasSection(c, s) THEN [exc |-> "NoSectionError", conf |-> c]
    ELSE [exc |-> "none", conf |-> [c EXCEPT ![s] = [o \in {k} |-> v]]]

\* conf.set(section, option, value): [exc, conf]
ConfSet(c, s, k, v) ==
    IF v.t = "bytes" /\ Len(v.v) > 0 THEN [exc |-> "TypeError", conf |-> c]
    ELSE IF ~HasSection(c, s) THEN [exc |-> "NoSectionError", conf |-> c]
    ELSE [exc |-> "none",
          conf |-> [c EXCEPT ![s] =
                      [o \in DOMAIN c[s] \cup {k} |->
                          IF o = k THEN v ELSE c[s][o]]]]

\* What a key of main may hold in a file: no value (allow_no_value), an
\* empty string or a cached string; the key may also be missing.
KeyStates == { None, Str(<<>>), Str(Cached) }

MainSections == UNION { [K -> KeyStates] : K \in SUBSET Keys }

\* The stores a call starts from.  They pass the start-up validation (logs
\* and runs are there); main may be missing; apache_conf_path may be missing
\* or in any of its states; the two other keys are both missing or both
\* cached.
StartMains ==
    { m \in MainSections :
        /\ \A k \in DOMAIN m \ {"apache_conf_path"} : m[k] = Str(Cached)
        /\ ("ood_portal_conf_path" \in DOMAIN m)
              = ("access_log_filename" \in DOMAIN m) }

ValidStores ==
    { [logs |-> LogsSection, runs |-> RunsSection] }
    \cup { [main |-> m, logs |-> LogsSection, runs |-> RunsSection] :
             m \in StartMains }

EmptyConf == [s \in {} |-> None]

----------------------------------------------------------------------------
(* conf.ini on disk: whether it can be read, whether it starts with the     *)
(* comment header, and its sections.                                        *)

NoFile == [exists |-> FALSE, header |-> FALSE, sections |-> EmptyConf]

FileOf(h, c) == [exists |-> TRUE, header |-> h, sections |-> c]

\* ConfRead if the file were opened in a mode that truncates it ('w+')
ConfRead_truncate(f) ==
    IF f.exists
    THEN [parsed |-> TRUE, conf |-> EmptyConf, file |-> FileOf(FALSE, EmptyConf)]
    ELSE [parsed |-> FALSE, conf |-> EmptyConf, file |-> f]

\* conf.read(CONF_FILENAME): the file is opened for reading and is left as
\* it is; the comment header is skipped by the parser
ConfRead(f) ==
    IF f.exists THEN [parsed |-> TRUE, conf |-> f.sections, file |-> f]
    ELSE [parsed |-> FALSE, conf |-> EmptyConf, file |-> f]

----------------------------------------------------------------------------
(* __run_pipeline *)

NoResults == [stdout |-> None, stderr |-> None, code |-> 0]

\* subprocess.Popen(process_args, stdin=..., stdout=PIPE, stderr=DEVNULL):
\* stdin 0 stands for None (the child inherits the host's standard input),
\* i > 0 for the stdout pipe of the i-th process.
Popen(process_args, stdin, input) ==
    [args |-> process_args, stdin |-> stdin, stdout |-> "PIPE",
     stderr |-> "DEVNULL", run |-> Exec(process_args, input)]

\* What the next process launched reads on its standard input
NextInput(ps, hin) == IF ps = <<>> THEN hin ELSE ps[Len(ps)].run.out

\* OldProcess if the runner kept the first process instead of the last
OldProcess_first(ps) == ps[1]

\* old_process after the loop
OldProcess(ps) == ps[Len(ps)]

\* old_process.communicate(): a stream is read only if it is a pipe
Communicate(p) ==
    [stdout |-> IF p.stdout = "PIPE" THEN Bytes(p.run.out) ELSE None,
     stderr |-> IF p.stderr = "PIPE" THEN Bytes(p.run.err) ELSE None]

\* lines 66-71, for one stream
StreamRaises(x) == Truthy(x) /\ ~Decodable(x.v)

StreamText(x) == IF Truthy(x) THEN Str(rstrip(decode(x.v))) ELSE x

----------------------------------------------------------------------------
(* __find_conf_value, after the pipeline has run *)

Outcome(e, c, v) == [exc |-> e, conf |-> c, value |-> v]

\* line 106
Succeeded(res) == res.code = 0

\* Tier2Usable with the cached value never taken
Tier2Usable_never(v, dbg) == FALSE

\* line 116
Tier2Usable(v, dbg) == Truthy(v) /\ dbg

\* 'text' + v raises TypeError unless v is a str (lines 110, 118, 126)
ConcatRaises(v) == v.t # "str"

\* Record without line 128: the value is returned but not written
Record_noset(c, k, v) == Outcome("none", c, v)

\* lines 127-130
Record(c, k, v) ==
    LET s == ConfSet(c, "main", k, v)
    IN  IF s.exc = "none" THEN Outcome("none", s.conf, v)
        ELSE Outcome(s.exc, c, None)

\* lines 106-130
find_conf_value(dbg, c, k, res, d) ==
    IF Succeeded(res)
    THEN IF dbg /\ ConcatRaises(res.stdout)
         THEN Outcome("TypeError", c, None)
         ELSE Record(c, k, res.stdout)
    ELSE LET g == ConfGet(c, "main", k)
         IN  IF g.exc # "none" THEN Outcome(g.exc, c, None)
             ELSE IF Tier2Usable(g.value, dbg) THEN Record(c, k, g.value)
             ELSE IF dbg /\ ConcatRaises(d) THEN Outcome("TypeError", c, None)
             ELSE Record(c, k, d)

----------------------------------------------------------------------------
(* One call of __find_conf_value on a validated store *)

IdleCall ==
    /\ pc = "idle"
    /\ key = "none"
    /\ pipeline_args = <<>>
    /\ default = None
    /\ procs = <<>>
    /\ results = NoResults
    /\ value = None
    /\ exc = "none"

\* What is kept of a call that has returned: its key, its pipeline result and
\* the value it returned
Returned(k, res, v) == [key |-> k, code |-> res.code, stdout |-> res.stdout,
                        value |-> v]

Init ==
    /\ history = <<>>
    /\ conf \in ValidStores
    /\ conf0 = conf
    /\ IdleCall
    /\ host_stdin \in HostInputs
    /\ file = FileOf(FALSE, conf)
    /\ file0 = file
    /\ dpc = "validated"

\* lines 77, 101-104: entry of __find_conf_value(conf, key, pipeline_args,
\* default) and of __run_pipeline(*pipeline_args)
Call(k, pa, d) ==
    /\ pc = "idle"
    /\ dpc = "validated"
    /\ key' = k
    /\ pipeline_args' = pa
    /\ default' = Str(d)
    /\ conf0' = conf
    /\ procs' = <<>>
    /\ results' = NoResults
    /\ value' = None
    /\ exc' = "none"
    /\ pc' = "popen"
    /\ UNCHANGED <<conf, host_stdin, file, file0, dpc,
                   history>>

\* lines 51-60: one turn of the loop launches the next process
LaunchProcess ==
    /\ pc = "popen"
    /\ Len(procs) < Len(pipeline_args)
    /\ procs' = Append(procs,
                   Popen(pipeline_args[Len(procs) + 1], Len(procs),
                         NextInput(procs, host_stdin)))
    /\ UNCHANGED <<conf, pc, key, pipeline_args, default, host_stdin, results,
                   value, exc, conf0, file, file0, dpc,
                   history>>

\* lines 62-75: communicate with the last process, decode and strip both
\* streams, take the exit code, return the results
FinishPipeline ==
    /\ pc = "popen"
    /\ Len(procs) = Len(pipeline_args)
    /\ LET got == Communicate(OldProcess(procs))
       IN  IF StreamRaises(got.stdout) \/ StreamRaises(got.stderr)
           THEN /\ exc' = "UnicodeDecodeError"
                /\ pc' = "runner_raised"
                /\ UNCHANGED results
           ELSE /\ results' = [stdout |-> StreamText(got.stdout),
                               stderr |-> StreamText(got.stderr),
                               code |-> OldProcess(procs).run.code]
                /\ pc' = "resolve"
                /\ UNCHANGED exc
    /\ UNCHANGED <<conf, key, pipeline_args, default, host_stdin, procs,
                   value, conf0, file, file0, dpc,
                   history>>

\* lines 105-130: pick the value, record it in the store, return it
Resolve ==
    /\ pc = "resolve"
    /\ LET r == find_conf_value(DEBUG, conf, key, results, default)
       IN  /\ conf' = r.conf
           /\ value' = r.value
           /\ exc' = r.exc
           /\ pc' = IF r.exc = "none" THEN "returned" ELSE "raised"
           /\ history' = IF r.exc = "none"
                          THEN Append(history, Returned(key, results, r.value))
                          ELSE history
    /\ UNCHANGED <<key, pipeline_args, default, host_stdin, procs, results,
                   conf0, file, file0, dpc>>

Next ==
    \/ \E k \in Keys, pa \in Pipelines, d \in Defaults : Call(k, pa, d)
    \/ LaunchProcess
    \/ FinishPipeline
    \/ Resolve

Spec == Init /\ [][Next]_vars

----------------------------------------------------------------------------
(* The same key resolved again in one run: a caller that retries the call  *)
(* of __find_conf_value with the same key and default on the same store.    *)

\* The pipelines of the retried calls: a single command
RetryPipelines == [1..1 -> Commands]

\* lines 77, 101-104: the call is made again after it has returned
Retry(pa) ==
    /\ pc = "returned"
    /\ dpc = "validated"
    /\ Len(history) < MaxCalls
    /\ pipeline_args' = pa
    /\ conf0' = conf
    /\ procs' = <<>>
    /\ results' = NoResults
    /\ value' = None
    /\ pc' = "popen"
    /\ UNCHANGED <<conf, key, default, host_stdin, exc, file, file0, dpc,
                   history>>

RetryNext ==
    \/ \E k \in Keys, pa \in RetryPipelines, d \in Defaults : Call(k, pa, d)
    \/ \E pa \in RetryPipelines : Retry(pa)
    \/ LaunchProcess
    \/ FinishPipeline
    \/ Resolve

RetrySpec == Init /\ [][RetryNext]_vars

----------------------------------------------------------------------------
(* The module-level driver, lines 132-219 *)

\* Every content conf.ini may have before a run
AnyStores ==
    { [s \in S |-> IF s = "logs" THEN LogsSection ELSE RunsSection] :
        S \in SUBSET {"logs", "runs"} }
    \cup { [s \in S \cup {"main"} |->
              IF s = "main" THEN m
              ELSE IF s = "logs" THEN LogsSection ELSE RunsSection] :
             S \in SUBSET {"logs", "runs"}, m \in MainSections }

Files == {NoFile} \cup { FileOf(h, c) : h \in BOOLEAN, c \in AnyStores }

\* line 77: the parameters of __find_conf_value
Parameters == <<"conf", "key", "pipeline_args", "default">>

\* lines 149-187: the three calls; each passes conf by position and the
\* keywords key, command_args and default
CallKeywords == {"key", "command_args", "default"}

CallSites ==
    << [at |-> "validated", then |-> "resolved1", key |-> "apache_conf_path",
        kinds |-> <<"emit", "filter", "copy">>, default |-> <<100>>],
       [at |-> "resolved1", then |-> "resolved2",
        key |-> "ood_portal_conf_path",
        kinds |-> <<"emit", "filter", "copy">>, default |-> <<100, 50>>],
       [at |-> "resolved2", then |-> "resolved3",
        key |-> "access_log_filename",
        kinds |-> <<"emit", "filter", "copy", "copy">>,
        default |-> <<100, 50>>] >>

SitePipelines(site) ==
    { pa \in [1..Len(site.kinds) -> Commands] :
        \A i \in 1..Len(site.kinds) : pa[i].kind = site.kinds[i] }

\* Python's binding of a call's arguments to the parameters: npos arguments
\* by position, the rest by keyword.  TRUE when the call raises TypeError.
BindRaises(params, npos, kws) ==
    LET byKeyword == { params[i] : i \in (npos + 1)..Len(params) }
    IN  \/ npos > Len(params)
        \/ \E kw \in kws : kw \notin byKeyword
        \/ \E name \in byKeyword : name \notin kws

\* RequiredSections looking at logs only
RequiredSections_logs(c) == HasSection(c, "logs")

\* lines 140-141
RequiredSections(c) == HasSection(c, "logs") /\ HasSection(c, "runs")

DriverInit ==
    /\ history = <<>>
    /\ file \in Files
    /\ file0 = file
    /\ conf = EmptyConf
    /\ conf0 = EmptyConf
    /\ IdleCall
    /\ host_stdin \in HostInputs
    /\ dpc = "start"

\* lines 133-137
ReadConf ==
    /\ dpc = "start"
    /\ LET r == ConfRead(file)
       IN  /\ conf' = r.conf
           /\ file' = r.file
           /\ IF r.parsed
              THEN dpc' = "read" /\ UNCHANGED exc
              ELSE dpc' = "raised" /\ exc' = "FileNotFoundError"
    /\ UNCHANGED <<pc, key, pipeline_args, default, host_stdin, procs,
                   results, value, conf0, file0, history>>

\* lines 139-144
CheckSections ==
    /\ dpc = "read"
    /\ IF RequiredSections(conf)
       THEN dpc' = "validated" /\ UNCHANGED exc
       ELSE dpc' = "raised" /\ exc' = "KeyError"
    /\ UNCHANGED <<conf, pc, key, pipeline_args, default, host_stdin, procs,
                   results, value, conf0, file, file0,
                   history>>

\* lines 149-158, 163-172, 177-187: a call of __find_conf_value.  The
\* arguments are bound first; the body is entered only if that succeeds.
DriverCall ==
    \E i \in 1..Len(CallSites) :
        LET site == CallSites[i]
        IN  /\ dpc = site.at
            /\ pc = "idle"
            /\ IF BindRaises(Parameters, 1, CallKeywords)
               THEN /\ dpc' = "raised"
                    /\ exc' = "TypeError"
                    /\ UNCHANGED <<pc, key, pipeline_args, default, conf0>>
               ELSE /\ dpc' = site.then
                    /\ pc' = "popen"
                    /\ key' = site.key
                    /\ pipeline_args' \in SitePipelines(site)
                    /\ default' = Str(site.default)
                    /\ conf0' = conf
                    /\ UNCHANGED exc
            /\ UNCHANGED <<conf, host_stdin, procs, results, value, file,
                           file0,
                   history>>

DriverNext ==
    \/ ReadConf
    \/ CheckSections
    \/ DriverCall

DriverSpec == DriverInit /\ [][DriverNext]_vars

----------------------------------------------------------------------------
(* The write block, lines 208-219, as a unit: it starts where the third     *)
(* call of __find_conf_value has returned.                                  *)

\* A value a pipeline has found
Live == <<112>>

\* How call i can have ended on a store read from sections c: with the live
\* value, with the cached value if main held one, or with the call's default
\* if main held the key with no or an empty value
Endings(c, i) ==
    LET k == CallSites[i].key
        live == [stdout |-> Str(Live), stderr |-> None, code |-> 0]
        failed == [stdout |-> Bytes(<<>>), stderr |-> None, code |-> 1]
    IN  { Returned(k, live, Str(Live)) }
        \cup { Returned(k, failed, c["main"][k]) :
                 x \in { y \in {1} : /\ k \in DOMAIN c["main"]
                                     /\ Truthy(c["main"][k]) } }
        \cup { Returned(k, failed, Str(CallSites[i].default)) :
                 x \in { y \in {1} : /\ k \in DOMAIN c["main"]
                                     /\ ~Truthy(c["main"][k]) } }

\* The store after the calls in h have written their values into main
RECURSIVE Written(_, _, _)
Written(c, h, n) ==
    IF n = 0 THEN c
    ELSE ConfSet(Written(c, h, n - 1), "main", h[n].key, h[n].value).conf

\* line 216-217: open(CONF_FILENAME, 'w') empties the file, then the header
\* is written
Truncated == FileOf(TRUE, EmptyConf)

\* lines 218-219: conf.write(conf_file) on the file opened with 'a' adds
\* every section of the store after what the file holds
Appended(f, c) ==
    FileOf(f.header,
           [s \in DOMAIN f.sections \cup DOMAIN c |->
               IF s \in DOMAIN c THEN c[s] ELSE f.sections[s]])

WriteInit ==
    /\ file \in { FileOf(h, c) : h \in BOOLEAN,
                                c \in { v \in ValidStores :
                                          HasSection(v, "main") } }
    /\ file0 = file
    /\ history \in { h \in [1..Len(CallSites) -> UNION
                              { Endings(file.sections, i) :
                                  i \in 1..Len(CallSites) }] :
                       \A i \in 1..Len(CallSites) :
                          h[i] \in Endings(file.sections, i) }
    /\ conf = Written(file.sections, history, Len(history))
    /\ conf0 = conf
    /\ IdleCall
    /\ host_stdin \in HostInputs
    /\ dpc = "resolved3"

\* lines 216-217
WriteHeader ==
    /\ dpc = "resolved3"
    /\ file' = Truncated
    /\ dpc' = "header_written"
    /\ UNCHANGED <<conf, pc, key, pipeline_args, default, host_stdin, procs,
                   results, value, exc, conf0, file0, history>>

\* lines 218-219
AppendConf ==
    /\ dpc = "header_written"
    /\ file' = Appended(file, conf)
    /\ dpc' = "done"
    /\ UNCHANGED <<conf, pc, key, pipeline_args, default, host_stdin, procs,
                   results, value, exc, conf0, file0, history>>

\* The process is killed before the block has finished
Killed ==
    /\ dpc \in {"resolved3", "header_written"}
    /\ dpc' = "killed"
    /\ UNCHANGED <<conf, pc, key, pipeline_args, default, host_stdin, procs,
                   results, value, exc, conf0, file, file0, history>>

WriteNext ==
    \/ WriteHeader
    \/ AppendConf
    \/ Killed

WriteSpec == WriteInit /\ [][WriteNext]_vars

----------------------------------------------------------------------------
(* Properties *)

\* The resolver has finished its own part (lines 105-130) of the call
Resolved == pc \in {"returned", "raised"}

\* The pipeline has run and __run_pipeline has returned its results
PipelineReturned == pc \in {"resolve", "returned", "raised"}

NonEmptyStr(x) == x.t = "str" /\ Len(x.v) > 0

\* What command i of the pipeline reads: the host's standard input for the
\* first command, the output of command i - 1 for the others
RECURSIVE StageInput(_, _, _)
StageInput(pa, i, hin) ==
    IF i = 1 THEN hin
    ELSE Exec(pa[i - 1], StageInput(pa, i - 1, hin)).out

\* What the last command of the current pipeline does
LastRun ==
    Exec(pipeline_args[Len(pipeline_args)],
         StageInput(pipeline_args, Len(pipeline_args), host_stdin))

C2_Tier2 ==
    (Resolved /\ results.code # 0 /\ HasOption(conf0, "main", key)
        /\ NonEmptyStr(conf0["main"][key]))
    => /\ pc = "returned"
       /\ value = conf0["main"][key]
       /\ HasOption(conf, "main", key)
       /\ conf["main"][key] = conf0["main"][key]

\* C2 witness: the pipeline failed with output of its own, and the cached
\* value, which differs from that output and from the default, was returned
C2_Witness ==
    /\ pc = "returned"
    /\ results.code # 0
    /\ NonEmptyStr(results.stdout)
    /\ HasOption(conf0, "main", key)
    /\ value = Str(Cached)
    /\ value # results.stdout
    /\ value # default

\* C3: tier 3.  When the final command exits non-zero and main has no entry
\* for the key, the call raises nothing, returns the default, and main.<key>
\* equals the default afterwards.
C3_Tier3 ==
    (Resolved /\ results.code # 0 /\ HasSection(conf0, "main")
        /\ ~HasOption(conf0, "main", key))
    => /\ pc = "returned"
       /\ value = default
       /\ HasOption(conf, "main", key)
       /\ conf["main"][key] = default

\* C4: write-back.  Whenever the call returns a value v, main.<key> of the
\* in-memory store equals v, whichever tier supplied it.
C4_WriteBack ==
    pc = "returned"
    => /\ HasOption(conf, "main", key)
       /\ conf["main"][key] = value

\* C4 witness: the default was returned over an empty cached value and is now
\* in the store
C4_Witness ==
    /\ pc = "returned"
    /\ results.code # 0
    /\ conf0["main"][key] = Str(<<>>)
    /\ value = default
    /\ conf["main"][key] = default

\* C5: the resolver raises no error of its own.  On a validated store, once
\* the pipeline has run (any exit code, any stdout), the call returns a value.
C5_NoErrorOfItsOwn == pc # "raised"

\* conf.ini as it was before the run cannot be read
Unreadable(f) == ~f.exists

\* conf.ini was read but lacks the logs section or the runs section
LacksRequired(f) ==
    f.exists /\ ~({"logs", "runs"} \subseteq DOMAIN f.sections)

\* C6: fail fast on a bad store.  If conf.ini cannot be read, or lacks logs or
\* runs, the driver gets no further than the start-up checks and ends there
\* with FileNotFoundError or KeyError; no process is launched, no call of the
\* resolver is entered and conf.ini keeps its content.
C6_FailFast ==
    /\ Unreadable(file0)
        => /\ dpc \in {"start", "raised"}
           /\ dpc = "raised" => exc = "FileNotFoundError"
    /\ LacksRequired(file0)
        => /\ dpc \in {"start", "read", "raised"}
           /\ dpc = "raised" => exc = "KeyError"
    /\ (Unreadable(file0) \/ LacksRequired(file0))
        => /\ pc = "idle"
           /\ procs = <<>>
           /\ file = file0

\* C6 witness: a file holding only [main] has aborted the run with KeyError
\* and is unchanged
C6_Witness ==
    /\ file0.exists
    /\ DOMAIN file0.sections = {"main"}
    /\ dpc = "raised"
    /\ exc = "KeyError"
    /\ procs = <<>>
    /\ file = file0

\* C7: successful completion.  When conf.ini is readable and has logs and
\* runs, the run ends without a raised error (having resolved the three keys
\* and rewritten conf.ini), whatever the pipelines' exit codes.
C7_Completes ==
    (file0.exists /\ {"logs", "runs"} \subseteq DOMAIN file0.sections)
    => dpc # "raised"

\* All three keys of main hold non-empty strings
AllCached(f) ==
    /\ f.exists
    /\ {"main", "logs", "runs"} \subseteq DOMAIN f.sections
    /\ DOMAIN f.sections["main"] = Keys
    /\ \A k \in Keys : NonEmptyStr(f.sections["main"][k])

\* C8: full-run fixed point.  From a file with logs, runs and non-empty cached
\* values for the three keys, a run whose pipelines all fail ends normally
\* with a file that has the header once and the sections, keys and values of
\* the input.
C8_FixedPoint ==
    (AllCached(file0) /\ dpc \in {"done", "raised"})
    => /\ dpc = "done"
       /\ file = FileOf(TRUE, file0.sections)

\* The text of a stream as the runner documents it: None when the stream is
\* empty, else the decoded text without its trailing newline
Documented(b) == IF b = <<>> THEN None ELSE Str(rstrip(decode(b)))

\* C9: the runner reports only the final stage.  The exit code returned is
\* that of the last command run on the output of the stages before it, and
\* the stdout returned is that last command's output; for a pipeline of one
\* command this is the command run directly.
C9_FinalStageOnly ==
    PipelineReturned
    => /\ results.code = LastRun.code
       /\ results.stdout = StreamText(Bytes(LastRun.out))

\* C9 witness: the first command of a two-stage pipeline exited non-zero and
\* the result still reports success, with the last command's output
C9_Witness ==
    /\ PipelineReturned
    /\ Len(pipeline_args) = 2
    /\ Exec(pipeline_args[1], host_stdin).code # 0
    /\ Exec(pipeline_args[1], host_stdin).out # LastRun.out
    /\ results.code = 0
    /\ NonEmptyStr(results.stdout)

\* C10: the result's stderr is what the final command wrote to its standard
\* error (None only when it wrote nothing).
C10_LastStderr ==
    PipelineReturned => results.stderr = Documented(LastRun.err)

\* A text without its trailing newline, when it ends with one
StripNewline(s) ==
    IF s # <<>> /\ s[Len(s)] = 10 THEN SubSeq(s, 1, Len(s) - 1) ELSE s

\* C11: the result's stdout is the final command's output decoded as text
\* with its trailing newline removed and the other trailing characters kept,
\* and it is None whenever the final command wrote nothing.
C11_StdoutTransform ==
    PipelineReturned
    => results.stdout =
          IF LastRun.out = <<>> THEN None
          ELSE Str(StripNewline(decode(LastRun.out)))

\* C12: an empty but successful live query.  When the final command exits 0
\* having written nothing, the call does not fall through to the cached value
\* or the default: it returns the empty-output marker of the pipeline result
\* and records it under main.<key>.
C12_EmptySuccess ==
    (Resolved /\ results.code = 0 /\ LastRun.out = <<>>
        /\ HasSection(conf0, "main"))
    => /\ pc = "returned"
       /\ value = results.stdout
       /\ HasOption(conf, "main", key)
       /\ conf["main"][key] = results.stdout

\* C17: pipeline wiring.  Once the runner has returned, exactly one process
\* has been launched per command, in the given order; each process after the
\* first reads the output of the one before it; and the first command has
\* received no input, not even the host's own standard input.
C17_Wiring ==
    PipelineReturned
    => /\ Len(procs) = Len(pipeline_args)
       /\ \A i \in 1..Len(procs) :
            /\ procs[i].args = pipeline_args[i]
            /\ i > 1 => /\ procs[i].stdin = i - 1
                        /\ procs[i].run
                             = Exec(pipeline_args[i], procs[i - 1].run.out)
       /\ procs[1].run = Exec(pipeline_args[1], <<>>)

\* C18: frame of a resolution.  A call for key k changes at most main.k:
\* the store keeps its sections, every section other than main keeps its
\* content, and every other key of main keeps its value.
C18_Frame ==
    /\ DOMAIN conf = DOMAIN conf0
    /\ \A s \in DOMAIN conf0 \ {"main"} : conf[s] = conf0[s]
    /\ HasSection(conf0, "main")
        => /\ DOMAIN conf["main"] \subseteq DOMAIN conf0["main"] \cup {key}
           /\ \A k \in DOMAIN conf0["main"] \ {key} :
                /\ k \in DOMAIN conf["main"]
                /\ conf["main"][k] = conf0["main"][k]

\* C18 witness: a call has returned having changed main.<key> while main
\* held the two other keys
C18_Witness ==
    /\ pc = "returned"
    /\ DOMAIN conf0["main"] = Keys
    /\ conf["main"][key] # conf0["main"][key]
    /\ \A k \in Keys \ {key} : conf["main"][k] = Str(Cached)

\* C19: DEBUG only controls printing.  For every store, pipeline result and
\* default, the resolver ends the same way (same value returned, same store
\* content, same error if any) with DEBUG False as with DEBUG True.
C19_DebugIndependent ==
    pc = "resolve"
    => find_conf_value(TRUE, conf, key, results, default)
         = find_conf_value(FALSE, conf, key, results, default)

\* The calls that had returned before the current one began
Earlier == IF pc = "returned" THEN Len(history) - 1 ELSE Len(history)

\* C15: resolving the same key twice.  If a call's pipeline exited 0 with
\* non-empty stdout s and the next call for that key has a pipeline that
\* exits non-zero, that call returns s, the value the first call wrote.
C15_SecondCallSeesFirst ==
    (Resolved /\ Earlier >= 1 /\ results.code # 0
        /\ history[Earlier].key = key
        /\ history[Earlier].code = 0
        /\ NonEmptyStr(history[Earlier].stdout))
    => /\ pc = "returned"
       /\ value = history[Earlier].stdout

\* C15 witness: the second call has returned the first call's live value,
\* which is neither the value cached before the run nor the default
C15_Witness ==
    /\ pc = "returned"
    /\ Len(history) = 2
    /\ history[1].key = key
    /\ history[1].code = 0
    /\ results.code # 0
    /\ value = history[1].stdout
    /\ HasOption(file0.sections, "main", key)
    /\ file0.sections["main"][key] = Str(Cached)
    /\ value # Str(Cached)
    /\ value # default

\* The keys of the calls that have returned, in order
ResolvedKeys == [i \in 1..Len(history) |-> history[i].key]

\* C13: persist only at the end.  conf.ini differs from its pre-run content
\* only once the write block has been entered, which is after the three keys
\* have been resolved; a run that has aborted with an error (missing file,
\* missing section, error at a resolution) has left the file as it was.
C13_PersistAtEnd ==
    /\ file # file0
        => /\ dpc \in {"header_written", "done"}
           /\ Len(history) = Cardinality(Keys)
    /\ dpc = "raised" => file = file0

\* C13 witness: a run on a valid file has aborted with an uncaught error at a
\* resolution and conf.ini still has its pre-run content
C13_Witness ==
    /\ dpc = "raised"
    /\ exc = "TypeError"
    /\ file0.exists
    /\ HasSection(file0.sections, "main")
    /\ file = file0

\* C14: driver ordering.  A run on a valid file resolves apache_conf_path,
\* then ood_portal_conf_path, then access_log_filename, each exactly once.
C14_Order ==
    (file0.exists /\ {"logs", "runs"} \subseteq DOMAIN file0.sections
        /\ dpc \in {"done", "raised"})
    => ResolvedKeys = <<"apache_conf_path", "ood_portal_conf_path",
                        "access_log_filename">>

====
